---- MODULE Spec2Model ----
(***************************************************************************)
(* Model of get_subs.py: a Streamlit page that fetches the subsidiaries of *)
(* a parent company over HTTP, drops a fixed list of columns, offers the   *)
(* rest as a CSV download and previews it.                                 *)
(*                                                                         *)
(* One run of main() after a click is modelled as a sequence of steps      *)
(* (pc): Trigger -> GetSubsidiaries -> IfData -> Validate -> DropColumns   *)
(* -> ToCsv -> Present.  Library calls are modelled by what they do:       *)
(*   requests.get / raise_for_status / json : an outcome chosen by the     *)
(*       remote side; HTTPError is raised for 4xx and 5xx only; the        *)
(*       JSONDecodeError of requests is a RequestException;                *)
(*   pandas.json_normalize : one row per record, nested objects flattened  *)
(*       to dotted names and moved behind the scalar fields, columns the   *)
(*       union of the keys in order of first appearance;                   *)
(*   DataFrame.to_csv : csv.writer with minimal quoting, "\n" terminated.  *)
(* Records nest objects one level deep.                                    *)
(* Text is a sequence of characters; a column name is one character-like   *)
(* token (names hold no delimiter, quote or newline).                      *)
(***************************************************************************)
EXTENDS Integers, Sequences, FiniteSets, TLC

\* Longest subsidiaries list the remote side returns in the model.
MaxRecs == 2

\* DataFrame.head() keeps the first five rows.
HeadRows == 5

COMMA == ","
QUOTE == "\""
LF == "\n"

----------------------------------------------------------------------------
(* JSON values of a subsidiary record *)

Str(s) == [k |-> "str", s |-> s, d |-> <<>>]
Null == [k |-> "null", s |-> <<>>, d |-> <<>>]
Obj(d) == [k |-> "dict", s |-> <<>>, d |-> d]
NaN == [k |-> "nan", s |-> <<>>, d |-> <<>>]
Field(key, val) == [key |-> key, val |-> val]
Sub(key, s) == [key |-> key, val |-> s]

\* Records the remote side may return (ordered as in the JSON text).
RecordPool ==
  { << Field("id", Str(<<"a">>)), Field("name", Str(<<"a">>)) >>,
    << Field("id", Str(<<"b">>)) >>,
    << Field("name", Str(<<QUOTE, COMMA, LF>>)), Field("_ts", Str(<<"a">>)) >>,
    << Field("address", Obj(<< Sub("city", <<"a">>) >>)), Field("name", Str(<<"b">>)) >>,
    << Field("name", Str(<<>>)) >>,
    << Field("_ts", Obj(<< Sub("id", <<"a">>) >>)), Field("id", Null) >>,
    << Field("uId", Str(<<"a">>)), Field("address", Str(<<COMMA>>)), Field("version", Str(<<"b">>)) >>,
    << >> }

RECURSIVE SeqsUpTo(_, _)
SeqsUpTo(S, n) ==
  IF n = 0 THEN { <<>> }
  ELSE LET shorter == SeqsUpTo(S, n - 1)
       IN shorter \cup { Append(s, x) : s \in shorter, x \in S }

SubsidiaryLists == SeqsUpTo(RecordPool, MaxRecs)

----------------------------------------------------------------------------
(* JSON bodies of the response (what response.json() returns) *)

Body(t, status, hasCount, subsKind, subs) ==
  [t |-> t, status |-> status, hasCount |-> hasCount, subsKind |-> subsKind, subs |-> subs]

Scalar(t) == Body(t, "<absent>", FALSE, "absent", <<>>)

\* Python None, also the value of the JSON text null.
None == Scalar("null")

NonDictBodies ==
  { Scalar(t) : t \in { "null", "false", "true", "zero", "number", "emptystr", "string",
                        "string_status", "emptylist", "list", "list_status" } }

DictBodies ==
  { Body("dict", "success", TRUE, "list", l) : l \in SubsidiaryLists }
  \cup { Body("dict", st, c, k, <<>>) :
           st \in { "<absent>", "success", "error" }, c \in BOOLEAN,
           k \in { "absent", "null", "list", "str" } }
  \cup { Body("dict", st, FALSE, "list", << r >>) :
           st \in { "<absent>", "error" }, r \in RecordPool }

Bodies == NonDictBodies \cup DictBodies

\* bool(x) of a parsed body: `if data`, `not api_response`.
Truthy(b) ==
  CASE b.t \in { "null", "false", "zero", "emptystr", "emptylist" } -> FALSE
    [] b.t = "dict" -> b.status # "<absent>" \/ b.hasCount \/ b.subsKind # "absent"
    [] OTHER -> TRUE

\* `"status" in api_response`: "yes", "no" or "TypeError".
ContainsStatus(b) ==
  CASE b.t \in { "true", "false", "zero", "number", "null" } -> "TypeError"
    [] b.t \in { "string_status", "list_status" } -> "yes"
    [] b.t = "dict" -> IF b.status # "<absent>" THEN "yes" ELSE "no"
    [] OTHER -> "no"

\* `api_response["status"]`: the value, or "TypeError" for a str or a list.
GetStatus(b) == IF b.t = "dict" THEN b.status ELSE "TypeError"

\* The test of line 37: "invalid", "ok", or "raise" when it throws.
CheckResponse(b) ==
  IF ~Truthy(b) THEN "invalid"
  ELSE IF ContainsStatus(b) = "TypeError" THEN "raise"
  ELSE IF ContainsStatus(b) = "no" THEN "invalid"
  ELSE IF GetStatus(b) = "TypeError" THEN "raise"
  ELSE IF GetStatus(b) # "success" THEN "invalid"
  ELSE "ok"

\* Variant of NoSubsidiaries: `subsidiaries is None` in place of `not subsidiaries`.
NoSubsidiariesNoneOnly(b) == b.subsKind = "null"

\* `not subsidiaries` for api_response.get("subsidiaries", []).
NoSubsidiaries(b) ==
  \/ b.subsKind \in { "absent", "null" }
  \/ b.subsKind = "list" /\ b.subs = <<>>

\* data.get("subsidiaries", []) as a list of records.
GetSubsidiariesList(b) == IF b.subsKind = "list" THEN b.subs ELSE <<>>

\* data.get('count', 0); the remote side reports the length of the list.
GetCount(b) == IF b.hasCount THEN Len(b.subs) ELSE 0

----------------------------------------------------------------------------
(* pandas: json_normalize, DataFrame.drop, DataFrame.head, DataFrame.to_csv *)

DataFrame(columns, rows) == [columns |-> columns, rows |-> rows]

RECURSIVE FlattenObjects(_, _)
\* The nested objects of a record from field i on, as dotted-name fields.
FlattenObjects(rec, i) ==
  IF i > Len(rec) THEN <<>>
  ELSE LET f == rec[i]
           inner == [n \in 1..Len(f.val.d) |->
                       Field(f.key \o "." \o f.val.d[n].key, Str(f.val.d[n].val))]
       IN (IF f.val.k = "dict" THEN inner ELSE <<>>) \o FlattenObjects(rec, i + 1)

IsScalarField(f) == f.val.k # "dict"

\* One record flattened: scalar fields keep their order, nested ones follow.
nested_to_record(rec) == SelectSeq(rec, IsScalarField) \o FlattenObjects(rec, 1)

HasKey(rec, key) == \E i \in 1..Len(rec) : rec[i].key = key

InSeq(s, x) == \E i \in 1..Len(s) : s[i] = x

RECURSIVE AddKeys(_, _, _)
\* cols followed by the keys of rec (from field i on) that cols lacks.
AddKeys(cols, rec, i) ==
  IF i > Len(rec) THEN cols
  ELSE AddKeys(IF InSeq(cols, rec[i].key) THEN cols ELSE Append(cols, rec[i].key), rec, i + 1)

RECURSIVE UnionColumns(_, _, _)
UnionColumns(cols, recs, i) ==
  IF i > Len(recs) THEN cols
  ELSE UnionColumns(AddKeys(cols, recs[i], 1), recs, i + 1)

\* The cell of a flattened record under a column; NaN when the key is missing.
Cell(rec, col) ==
  IF HasKey(rec, col)
  THEN rec[CHOOSE i \in 1..Len(rec) : rec[i].key = col].val
  ELSE NaN

\* Variant of RowsOf: the rows come out in reverse order.
RowsOfReversed(recs, cols) ==
  [i \in 1..Len(recs) |-> [j \in 1..Len(cols) |-> Cell(recs[Len(recs) + 1 - i], cols[j])]]

\* Row i of the frame comes from element i of the list.
RowsOf(recs, cols) ==
  [i \in 1..Len(recs) |-> [j \in 1..Len(cols) |-> Cell(recs[i], cols[j])]]

json_normalize(subs) ==
  LET recs == [i \in 1..Len(subs) |-> nested_to_record(subs[i])]
      cols == UnionColumns(<<>>, recs, 1)
  IN DataFrame(cols, RowsOf(recs, cols))

\* Variant of columns_to_exclude: 'id' is missing from the list.
columns_to_exclude_without_id ==
  << "uId", "dType", "main_parent_id", "record_update_date",
     "createdBy", "createdAt", "updatedBy", "updatedAt", "version",
     "active", "archived", "domains", "validatedAt", "_rid", "_self",
     "_etag", "_attachments", "_ts" >>

\* The exclusion list of json_to_csv.
columns_to_exclude ==
  << "id", "uId", "dType", "main_parent_id", "record_update_date",
     "createdBy", "createdAt", "updatedBy", "updatedAt", "version",
     "active", "archived", "domains", "validatedAt", "_rid", "_self",
     "_etag", "_attachments", "_ts" >>

\* Variant of columns_to_exclude_preview: the copy was not given '_ts'.
columns_to_exclude_preview_stale ==
  << "id", "uId", "dType", "main_parent_id", "record_update_date",
     "createdBy", "createdAt", "updatedBy", "updatedAt", "version",
     "active", "archived", "domains", "validatedAt", "_rid", "_self",
     "_etag", "_attachments" >>

\* The exclusion list of main (the preview), a second copy in the source.
columns_to_exclude_preview ==
  << "id", "uId", "dType", "main_parent_id", "record_update_date",
     "createdBy", "createdAt", "updatedBy", "updatedAt", "version",
     "active", "archived", "domains", "validatedAt", "_rid", "_self",
     "_etag", "_attachments", "_ts" >>

RECURSIVE KeptFrom(_, _, _)
\* The positions, from j on, of the columns that are not among labels.
KeptFrom(cols, labels, j) ==
  IF j > Len(cols) THEN <<>>
  ELSE (IF InSeq(labels, cols[j]) THEN <<>> ELSE << j >>) \o KeptFrom(cols, labels, j + 1)

\* Variant of drop: only the first of the labels is dropped.
drop_first_only(df, labels) ==
  LET idx == KeptFrom(df.columns, IF labels = <<>> THEN <<>> ELSE << Head(labels) >>, 1)
  IN DataFrame([n \in 1..Len(idx) |-> df.columns[idx[n]]],
               [i \in 1..Len(df.rows) |-> [n \in 1..Len(idx) |-> df.rows[i][idx[n]]]])

\* df.drop(columns=labels, errors='ignore')
drop(df, labels) ==
  LET idx == KeptFrom(df.columns, labels, 1)
  IN DataFrame([n \in 1..Len(idx) |-> df.columns[idx[n]]],
               [i \in 1..Len(df.rows) |-> [n \in 1..Len(idx) |-> df.rows[i][idx[n]]]])

\* [col for col in exclude if col in df.columns]
PresentLabels(exclude, df) ==
  LET IsColumn(c) == InSeq(df.columns, c) IN SelectSeq(exclude, IsColumn)

\* Line 59 (and 132): drop the excluded columns that exist.
DropExcluded(df, exclude) == drop(df, PresentLabels(exclude, df))

head(df) ==
  DataFrame(df.columns, SubSeq(df.rows, 1, IF Len(df.rows) < HeadRows THEN Len(df.rows) ELSE HeadRows))

\* The text of a cell: missing values and None are written as ''.
CellText(c) == IF c.k = "str" THEN c.s ELSE <<>>

NeedsQuote(s) == \E i \in 1..Len(s) : s[i] \in { COMMA, QUOTE, LF }

RECURSIVE DoubleQuotes(_)
DoubleQuotes(s) ==
  IF s = <<>> THEN <<>>
  ELSE (IF Head(s) = QUOTE THEN << QUOTE, QUOTE >> ELSE << Head(s) >>) \o DoubleQuotes(Tail(s))

QuoteField(s) ==
  IF NeedsQuote(s) THEN << QUOTE >> \o DoubleQuotes(s) \o << QUOTE >> ELSE s

RECURSIVE JoinFields(_)
JoinFields(fields) ==
  IF Len(fields) = 1 THEN QuoteField(fields[1])
  ELSE QuoteField(Head(fields)) \o << COMMA >> \o JoinFields(Tail(fields))

\* csv.writer.writerow: no field writes an empty line, one empty field writes "".
writerow(fields) ==
  IF fields = <<>> THEN << LF >>
  ELSE IF Len(fields) = 1 /\ fields[1] = <<>> THEN << QUOTE, QUOTE, LF >>
  ELSE JoinFields(fields) \o << LF >>

RECURSIVE WriteRows(_, _)
WriteRows(rows, i) ==
  IF i > Len(rows) THEN <<>>
  ELSE writerow([j \in 1..Len(rows[i]) |-> CellText(rows[i][j])]) \o WriteRows(rows, i + 1)

\* Variant of to_csv: a frame without columns writes nothing.
to_csv_nothing_without_columns(df) ==
  IF df.columns = <<>> THEN <<>>
  ELSE writerow([j \in 1..Len(df.columns) |-> << df.columns[j] >>]) \o WriteRows(df.rows, 1)

\* df.to_csv(output, index=False, encoding='utf-8'): the header row, then the rows.
to_csv(df) ==
  writerow([j \in 1..Len(df.columns) |-> << df.columns[j] >>]) \o WriteRows(df.rows, 1)

----------------------------------------------------------------------------
(* requests: the outcomes of one GET and the exceptions they raise *)

base_url == "https://dev-monotypeai.huhoka.com/tools/subsidiaries"

Request(name) == [method |-> "GET", url |-> base_url, params |-> [main_parent_name |-> name]]

\* Variant of Send: the GET is issued a second time.
SendWithRetry(reqs, name) == reqs \o << Request(name), Request(name) >>

\* requests.get(base_url, params=params), line 24: one GET.
Send(reqs, name) == Append(reqs, Request(name))

NoResponse == [kind |-> "none", status |-> 0, wellformed |-> FALSE, body |-> None]

\* What the remote side can answer: no answer at all (transport failure), or a
\* final status with a body that is JSON or not.
Outcomes ==
  { [kind |-> "neterr", status |-> 0, wellformed |-> FALSE, body |-> None] }
  \cup { [kind |-> "http", status |-> st, wellformed |-> FALSE, body |-> None] :
           st \in { 200, 300, 404, 500 } }
  \cup { [kind |-> "http", status |-> st, wellformed |-> TRUE, body |-> b] :
           st \in { 200, 300 }, b \in Bodies }

\* response.raise_for_status(): HTTPError for a 4xx or 5xx status.
RaisesHTTPError(status) == 400 <= status /\ status < 600

\* The exception lines 24-26 raise for an outcome, "none" when they return.
Raised(out) ==
  IF out.kind = "neterr" THEN "ConnectionError"
  ELSE IF RaisesHTTPError(out.status) THEN "HTTPError"
  ELSE IF ~out.wellformed THEN "JSONDecodeError"
  ELSE "none"

\* except requests.exceptions.RequestException
IsRequestException(exc) == exc \in { "ConnectionError", "HTTPError", "JSONDecodeError" }

----------------------------------------------------------------------------
(* streamlit: what one run of the script has put on the page *)

Element(kind, text, n) == [kind |-> kind, text |-> text, n |-> n]
Warning(text) == Element("warning", text, 0)
Error(text) == Element("error", text, 0)
Success(text, n) == Element("success", text, n)

Absent(v) == [some |-> FALSE, v |-> v]
Some(v) == [some |-> TRUE, v |-> v]

EmptyFrame == DataFrame(<<>>, <<>>)
NoFrame == Absent(EmptyFrame)
NoBytes == Absent(<<>>)
NoName == Absent([parent |-> "", timestamp |-> ""])
NoDownload == [some |-> FALSE, data |-> <<>>, file_name |-> NoName.v, mime |-> ""]

\* `csv_data and filename`: bytes are true when not empty, None is false.
HasArtifact(csv, name) == csv.some /\ Len(csv.v) > 0 /\ name.some

\* `not parent_name`
NameMissing(name) == name = ""

ParentNames == { "", "Acme" }
Timestamps == { "20260101_000000", "20260101_000001" }

VARIABLES
  pc,           \* where the run of main() stands; "idle" and "done" await a click
  parent_name,  \* the text input
  response,     \* what the remote side answered in this run
  requests,     \* the GETs issued in this run
  data,         \* what get_subsidiaries returned
  crashed,      \* an exception left main()
  calls,        \* the functions main() has called in this run
  df,           \* json_to_csv: the frame
  csv_data,     \* json_to_csv: first result
  filename,     \* json_to_csv: second result
  screen,       \* banners shown, in order
  download,     \* the download button
  df_preview    \* the table under "Data Preview"

vars == << pc, parent_name, response, requests, data, crashed, calls, df, csv_data,
           filename, screen, download, df_preview >>

\* A rerun of the script starts from an empty page and fresh locals.
FreshRun ==
  /\ response' = NoResponse
  /\ requests' = <<>>
  /\ data' = None
  /\ crashed' = FALSE
  /\ calls' = <<>>
  /\ df' = NoFrame
  /\ csv_data' = NoBytes
  /\ filename' = NoName
  /\ download' = NoDownload
  /\ df_preview' = NoFrame

Init ==
  /\ pc = "idle"
  /\ parent_name = ""
  /\ response = NoResponse
  /\ requests = <<>>
  /\ data = None
  /\ crashed = FALSE
  /\ calls = <<>>
  /\ df = NoFrame
  /\ csv_data = NoBytes
  /\ filename = NoName
  /\ screen = <<>>
  /\ download = NoDownload
  /\ df_preview = NoFrame

\* The text input changes without a click: the script reruns, the button is False.
EditInput ==
  /\ pc \in { "idle", "done" }
  /\ \E name \in ParentNames : parent_name' = name
  /\ FreshRun
  /\ screen' = <<>>
  /\ pc' = "idle"

\* Lines 90-95: the button is clicked.
Trigger ==
  /\ pc \in { "idle", "done" }
  /\ \E name \in ParentNames :
       /\ parent_name' = name
       /\ IF NameMissing(name)
          THEN /\ screen' = << Warning("Please enter a Parent Name") >>
               /\ pc' = "done"
          ELSE /\ screen' = <<>>
               /\ pc' = "fetching"
  /\ FreshRun

\* Lines 97 and 15-29: get_subsidiaries(parent_name).
GetSubsidiaries ==
  /\ pc = "fetching"
  /\ \E out \in Outcomes :
       /\ response' = out
       /\ requests' = Send(requests, parent_name)
       /\ calls' = Append(calls, "get_subsidiaries")
       /\ IF Raised(out) = "none"
          THEN /\ data' = out.body
               /\ pc' = "fetched"
               /\ UNCHANGED << screen, crashed >>
          ELSE IF IsRequestException(Raised(out))
          THEN /\ data' = None
               /\ screen' = Append(screen, Error("Error fetching data"))
               /\ pc' = "fetched"
               /\ UNCHANGED crashed
          ELSE /\ crashed' = TRUE
               /\ pc' = "done"
               /\ UNCHANGED << data, screen >>
  /\ UNCHANGED << parent_name, df, csv_data, filename, download, df_preview >>

\* Line 99: `if data:`; nothing follows it when it is false.
IfData ==
  /\ pc = "fetched"
  /\ IF Truthy(data)
     THEN /\ pc' = "json_to_csv"
          /\ calls' = Append(calls, "json_to_csv")
     ELSE /\ pc' = "done"
          /\ UNCHANGED calls
  /\ UNCHANGED << parent_name, response, requests, data, crashed, df, csv_data, filename,
                  screen, download, df_preview >>

\* Lines 35-48 (and 75-77 when they raise): the checks and json_normalize.
Validate ==
  /\ pc = "json_to_csv"
  /\ LET check == CheckResponse(data)
     IN IF check = "raise"
        THEN /\ screen' = Append(screen, Error("Error converting data to CSV"))
             /\ pc' = "returned"
             /\ UNCHANGED df
        ELSE IF check = "invalid"
        THEN /\ screen' = Append(screen, Error("Invalid or empty response from the API"))
             /\ pc' = "returned"
             /\ UNCHANGED df
        ELSE IF NoSubsidiaries(data)
        THEN /\ screen' = Append(screen, Warning("No subsidiaries found for the given criteria"))
             /\ pc' = "returned"
             /\ UNCHANGED df
        ELSE IF data.subsKind # "list"
        THEN \* json_normalize raises NotImplementedError for a str
             /\ screen' = Append(screen, Error("Error converting data to CSV"))
             /\ pc' = "returned"
             /\ UNCHANGED df
        ELSE /\ df' = Some(json_normalize(data.subs))
             /\ pc' = "normalized"
             /\ UNCHANGED screen
  /\ UNCHANGED << parent_name, response, requests, data, crashed, calls, csv_data, filename,
                  download, df_preview >>

\* Line 59.
DropColumns ==
  /\ pc = "normalized"
  /\ df' = Some(DropExcluded(df.v, columns_to_exclude))
  /\ pc' = "filtered"
  /\ UNCHANGED << parent_name, response, requests, data, crashed, calls, csv_data, filename,
                  screen, download, df_preview >>

\* Lines 62-74.
ToCsv ==
  /\ pc = "filtered"
  /\ csv_data' = Some(to_csv(df.v))
  /\ \E now \in Timestamps :
       filename' = Some([parent |-> parent_name, timestamp |-> now])
  /\ pc' = "returned"
  /\ UNCHANGED << parent_name, response, requests, data, crashed, calls, df, screen,
                  download, df_preview >>

\* Lines 106-134.
Present ==
  /\ pc = "returned"
  /\ IF HasArtifact(csv_data, filename)
     THEN /\ screen' = screen \o
                 << Success("Found subsidiaries", GetCount(data)),
                    Success("Data fetched successfully!", 0) >>
          /\ download' = [some |-> TRUE, data |-> csv_data.v, file_name |-> filename.v,
                          mime |-> "text/csv"]
          /\ df_preview' = Some(head(DropExcluded(json_normalize(GetSubsidiariesList(data)),
                                                  columns_to_exclude_preview)))
     ELSE UNCHANGED << screen, download, df_preview >>
  /\ pc' = "done"
  /\ UNCHANGED << parent_name, response, requests, data, crashed, calls, df, csv_data,
                  filename >>

Next ==
  \/ EditInput
  \/ Trigger
  \/ GetSubsidiaries
  \/ IfData
  \/ Validate
  \/ DropColumns
  \/ ToCsv
  \/ Present

Spec == Init /\ [][Next]_vars

----------------------------------------------------------------------------
(* Reading the results: a CSV reader and the outcomes of a cycle *)

RECURSIVE Parse(_, _, _, _, _, _)
\* A reader with the dialect of the writer: text t from position i, in state st,
\* with the rows, the fields of the current row and the current field so far.
Parse(t, i, st, rows, row, fld) ==
  IF i > Len(t)
  THEN IF st = "start_record" THEN rows ELSE Append(rows, Append(row, fld))
  ELSE LET c == t[i]
           endRecord == Parse(t, i + 1, "start_record", Append(rows, Append(row, fld)), <<>>, <<>>)
           endField == Parse(t, i + 1, "start_field", rows, Append(row, fld), <<>>)
       IN CASE st = "start_record" ->
                 IF c = LF
                 THEN Parse(t, i + 1, "start_record", Append(rows, <<>>), <<>>, <<>>)
                 ELSE Parse(t, i, "start_field", rows, <<>>, <<>>)
            [] st = "start_field" ->
                 IF c = LF THEN endRecord
                 ELSE IF c = COMMA THEN endField
                 ELSE IF c = QUOTE THEN Parse(t, i + 1, "in_quoted", rows, row, <<>>)
                 ELSE Parse(t, i + 1, "in_field", rows, row, << c >>)
            [] st = "in_field" ->
                 IF c = LF THEN endRecord
                 ELSE IF c = COMMA THEN endField
                 ELSE Parse(t, i + 1, "in_field", rows, row, Append(fld, c))
            [] st = "in_quoted" ->
                 IF c = QUOTE THEN Parse(t, i + 1, "quote_in_quoted", rows, row, fld)
                 ELSE Parse(t, i + 1, "in_quoted", rows, row, Append(fld, c))
            [] OTHER ->
                 IF c = LF THEN endRecord
                 ELSE IF c = COMMA THEN endField
                 ELSE IF c = QUOTE THEN Parse(t, i + 1, "in_quoted", rows, row, Append(fld, QUOTE))
                 ELSE Parse(t, i + 1, "in_field", rows, row, Append(fld, c))

\* The records of a CSV text, each a sequence of fields.
ParseCsv(t) == Parse(t, 1, "start_record", <<>>, <<>>, <<>>)

\* The column names in the header row of a CSV text.
CsvHeader(t) == LET h == ParseCsv(t)[1] IN [j \in 1..Len(h) |-> h[j][1]]

\* The Excluded Columns set of the specification.
ExcludedColumns ==
  { "id", "uId", "dType", "main_parent_id", "record_update_date", "createdBy",
    "createdAt", "updatedBy", "updatedAt", "version", "active", "archived", "domains",
    "validatedAt", "_rid", "_self", "_etag", "_attachments", "_ts" }

HasKind(kind) == \E i \in 1..Len(screen) : screen[i].kind = kind

\* The outcomes of a cycle.
Previewed == HasKind("success") /\ download.some /\ df_preview.some
Empty == InSeq(screen, Warning("No subsidiaries found for the given criteria"))
Failed == HasKind("error")

NoArtifact == ~csv_data.some /\ ~filename.some /\ ~download.some /\ ~df_preview.some

\* The remote call answered with a parsed body.
Fetched == response.kind = "http" /\ Raised(response) = "none"

\* The body is an envelope with status "success" and a non-empty list of records.
ValidNonEmpty ==
  /\ Fetched
  /\ data.t = "dict" /\ data.status = "success"
  /\ data.subsKind = "list" /\ data.subs # <<>>

\* Some record of the list has an excluded key.
HasExcludedKey == \E i \in 1..Len(data.subs) : \E c \in ExcludedColumns : HasKey(data.subs[i], c)

----------------------------------------------------------------------------
(* Claims *)

\* C1: no column of the Excluded Columns set is a column name of the output
\* header, in the CSV that json_to_csv returns, in the bytes behind the download
\* button, or in the preview table.
C1_ExcludedNeverInHeader ==
  /\ csv_data.some => \A c \in ExcludedColumns : ~InSeq(CsvHeader(csv_data.v), c)
  /\ download.some => \A c \in ExcludedColumns : ~InSeq(CsvHeader(download.data), c)
  /\ df_preview.some => \A c \in ExcludedColumns : ~InSeq(df_preview.v.columns, c)

\* A list with an excluded key was exported and previewed with a header left.
C1_Witness ==
  /\ pc = "done" /\ ValidNonEmpty /\ Previewed
  /\ HasExcludedKey
  /\ CsvHeader(download.data) # <<>>

\* C2: a fetch that fails (transport error, a status outside 2xx, a body that
\* is not JSON) ends the cycle with an error shown, json_to_csv not called, no
\* download and no preview, one request only, and no exception out of main.
C2_FetchFailureShortCircuits ==
  (/\ pc = "done"
   /\ response.kind # "none"
   /\ \/ response.kind = "neterr"
      \/ response.status < 200 \/ response.status > 299
      \/ ~response.wellformed)
  => /\ Failed
     /\ ~InSeq(calls, "json_to_csv")
     /\ NoArtifact
     /\ Len(requests) = 1
     /\ ~crashed

\* C3: a fetched envelope whose status is missing or not "success" yields no
\* CSV, no filename, no download and no preview, an error notice, and no crash.
C3_NonSuccessEnvelopeIsError ==
  (pc = "done" /\ Fetched /\ data.t = "dict" /\ data.status # "success")
  => NoArtifact /\ Failed /\ ~crashed

\* C4: an envelope with status "success" and an empty subsidiaries list yields
\* no CSV, no filename, no download and no preview, and the "no subsidiaries"
\* warning instead of an error.
C4_EmptyListIsWarning ==
  (/\ pc = "done" /\ Fetched
   /\ data.t = "dict" /\ data.status = "success"
   /\ data.subsKind = "list" /\ data.subs = <<>>)
  => NoArtifact /\ Empty /\ ~Failed /\ ~HasKind("success")

\* The envelope {"status":"success","count":0,"subsidiaries":[]} ended its cycle.
C4_Witness ==
  /\ pc = "done" /\ Fetched
  /\ data = Body("dict", "success", TRUE, "list", <<>>)
  /\ Empty

\* C5: a cycle triggered with a non-empty name ends in exactly one of
\* Previewed, Empty, Failed, whatever the remote call returned.
C5_CycleEndsInOneOutcome ==
  (pc = "done" /\ ~NameMissing(parent_name))
  => \/ Previewed /\ ~Empty /\ ~Failed
     \/ ~Previewed /\ Empty /\ ~Failed
     \/ ~Previewed /\ ~Empty /\ Failed

\* C6: when a cycle ends Previewed, the columns of the preview table are the
\* columns of the header of the exported CSV, in the same order.
C6_PreviewMatchesCsv ==
  (pc = "done" /\ Previewed) => df_preview.v.columns = CsvHeader(download.data)

\* A list with excluded and kept keys was exported and previewed.
C6_Witness ==
  /\ pc = "done" /\ Previewed /\ HasExcludedKey
  /\ Len(df_preview.v.columns) >= 2

\* C7: the CSV of a valid non-empty envelope has one header row and then one
\* row per element of the list, row i holding under each header column the
\* value of element i, and every kept key of element i is a header column.
C7_RowsMirrorList ==
  csv_data.some =>
    LET rows == ParseCsv(csv_data.v)
        header == CsvHeader(csv_data.v)
        subs == data.subs
    IN /\ ValidNonEmpty
       /\ Len(rows) = Len(subs) + 1
       /\ \A i \in 1..Len(subs) :
            LET rec == nested_to_record(subs[i])
            IN /\ Len(rows[i + 1]) = Len(header)
               /\ \A j \in 1..Len(header) : rows[i + 1][j] = CellText(Cell(rec, header[j]))
               /\ \A n \in 1..Len(rec) :
                    rec[n].key \notin ExcludedColumns => InSeq(header, rec[n].key)

\* Two different records were written, one with a value that needs quoting.
C7_Witness ==
  /\ csv_data.some
  /\ Len(data.subs) >= 2
  /\ data.subs[1] # data.subs[2]
  /\ \E i \in 1..Len(csv_data.v) : csv_data.v[i] = QUOTE

\* AllExcluded: every column of the flattened list is an excluded column.
AllExcluded ==
  \A i \in 1..Len(data.subs) :
    LET rec == nested_to_record(data.subs[i])
    IN \A n \in 1..Len(rec) : rec[n].key \in ExcludedColumns

\* C8: a valid non-empty list all of whose columns are excluded still ends
\* Previewed, with a CSV and a filename behind the download button and neither
\* an error nor a warning.
C8_ZeroWidthIsValid ==
  (pc = "done" /\ ValidNonEmpty /\ AllExcluded)
  => /\ Previewed
     /\ csv_data.some /\ filename.some
     /\ download.data = csv_data.v /\ Len(download.data) > 0
     /\ download.file_name = filename.v
     /\ ~HasKind("error") /\ ~HasKind("warning")
     /\ Len(df_preview.v.rows) = Len(data.subs)

\* Every record of the list has only `id`.
C8_Witness ==
  /\ pc = "done" /\ ValidNonEmpty /\ Previewed
  /\ \A i \in 1..Len(data.subs) : Len(data.subs[i]) = 1 /\ HasKey(data.subs[i], "id")
  /\ df_preview.v.columns = <<>>

\* C9: a run issues at most one GET; once a non-empty name was fetched the one
\* GET carries it as main_parent_name; an empty name issues none, leaves no
\* artifact, shows only the warning and awaits the next click.
C9_OneGetPerTrigger ==
  /\ Len(requests) <= 1
  /\ (~NameMissing(parent_name) /\ pc \notin { "idle", "fetching" })
       => requests = << [method |-> "GET", url |-> base_url,
                         params |-> [main_parent_name |-> parent_name]] >>
  /\ NameMissing(parent_name)
       => /\ requests = <<>>
          /\ NoArtifact
          /\ pc \in { "idle", "done" }
          /\ pc = "done" => screen = << Warning("Please enter a Parent Name") >>

\* A fetch that failed has ended its cycle.
C9_Witness ==
  /\ pc = "done" /\ ~NameMissing(parent_name)
  /\ response.kind = "neterr"
  /\ Len(requests) = 1

\* C10: filtering the filtered frame again gives the same columns and rows,
\* and a frame without excluded columns is left as it is.
C10_FilterIdempotent ==
  pc = "normalized" =>
    LET once == DropExcluded(df.v, columns_to_exclude)
    IN /\ DropExcluded(once, columns_to_exclude) = once
       /\ (\A c \in ExcludedColumns : ~InSeq(df.v.columns, c)) => once = df.v

\* A frame with two excluded columns and a kept one is about to be filtered.
C10_Witness ==
  /\ pc = "normalized"
  /\ Cardinality({ c \in ExcludedColumns : InSeq(df.v.columns, c) }) >= 2
  /\ \E j \in 1..Len(df.v.columns) : df.v.columns[j] \notin ExcludedColumns

====
